---- MODULE Spec2Model ----
(***************************************************************************)
(* Model of video_processor.py: one run of main(), i.e. the batch runner   *)
(* (process_all_links), the per-item assembler (process_video_link) and    *)
(* the extractor adapter (extract_video_info / extract_with_fallback).     *)
(* The external resolver (yt_dlp), the file system and the hash order of   *)
(* Python's set are the environment: every call draws its outcome from a   *)
(* small set.                                                              *)
(***************************************************************************)
EXTENDS Integers, Sequences, FiniteSets, TLC

VARIABLES
    pc,               \* position of the single control thread
    file_state,       \* links.txt: "absent", "unreadable" or "ok"
    file_lines,       \* links.txt: its lines, each with its line terminator
    links,            \* process_all_links: local `links`
    index,            \* process_all_links: number of items finished
    output_data,      \* self.output_data
    processed_count,  \* self.processed_count
    failed_count,     \* self.failed_count
    attempt,          \* extract_video_info: loop variable `attempt`
    flat_info,        \* extract_with_fallback: `info` of the flattened call
    video_info,       \* process_video_link: `video_info`
    trace,            \* history: adapter events of the item in progress
    handed,           \* history: urls passed to process_video_link
    item_outcome,     \* history: how the last finished item ended
    sleeps,           \* history: number of inter-item delays taken
    save_calls,       \* history: number of calls of save_to_json
    write_result,     \* history: outcome of the output write
    success,          \* main: local `success`
    exit_code,        \* argument of sys.exit
    now,              \* the wall clock
    stamp             \* process_video_link: the pair returned by get_current_timestamp

vars == <<pc, file_state, file_lines, links, index, output_data,
          processed_count, failed_count, attempt, flat_info, video_info,
          trace, handed, item_outcome, sleeps, save_calls, write_result,
          success, exit_code, now, stamp>>

\* ---------------------------------------------------------------- bounds
MaxLines == 2
\* SpecTime: lines of links.txt, and half seconds the clock may advance
MaxTimedLines == 1
MaxClock == 2

\* ------------------------------------------------------------- constants
max_retries == 2
retry_delay == 5

\* --------------------------------------------------------------- strings
\* Python's None where a str is expected
None == "<None>"

Whitespace == {" ", "\t", "\n", "\r"}

\* needle in s
Contains(needle, s) ==
    \E i \in 1..(Len(s) - Len(needle) + 1) :
        SubSeq(s, i, i + Len(needle) - 1) = needle

\* s.startswith(prefix)
StartsWith(s, prefix) ==
    /\ Len(prefix) <= Len(s)
    /\ SubSeq(s, 1, Len(prefix)) = prefix

RECURSIVE LStrip(_)
LStrip(s) ==
    IF Len(s) > 0 /\ SubSeq(s, 1, 1) \in Whitespace
    THEN LStrip(SubSeq(s, 2, Len(s)))
    ELSE s

RECURSIVE RStrip(_)
RStrip(s) ==
    IF Len(s) > 0 /\ SubSeq(s, Len(s), Len(s)) \in Whitespace
    THEN RStrip(SubSeq(s, 1, Len(s) - 1))
    ELSE s

\* str.strip()
Strip(s) == RStrip(LStrip(s))

\* ------------------------------------------------------------ input file
PageWatch == "https://www.youtube.com/watch?v=abc"
PageShort == "https://youtu.be/abc"

\* the lines a links.txt is made of
LineSet ==
    { "https://youtu.be/abc\n",
      "https://www.youtube.com/watch?v=abc\n",
      "\thttps://youtu.be/abc \n",
      "\n",
      "# my list\n",
      "  # note\n" }

RECURSIVE SeqsUpTo(_, _)
SeqsUpTo(S, n) ==
    IF n = 0 THEN {<< >>}
    ELSE LET shorter == SeqsUpTo(S, n - 1)
         IN  shorter \cup {Append(q, x) : q \in {r \in shorter : Len(r) = n - 1}, x \in S}

Files == SeqsUpTo(LineSet, MaxLines)

Range(q) == {q[i] : i \in 1..Len(q)}

\* mutant: the test for comment lines is missing
RECURSIVE FilterLinksKeepsComments(_)
FilterLinksKeepsComments(lines) ==
    IF lines = << >> THEN << >>
    ELSE LET line == Head(lines)
             rest == FilterLinksKeepsComments(Tail(lines))
         IN  IF Strip(line) # "" THEN <<Strip(line)>> \o rest ELSE rest

\* the list comprehension of read_links_from_file
RECURSIVE FilterLinks(_)
FilterLinks(lines) ==
    IF lines = << >> THEN << >>
    ELSE LET line == Head(lines)
             rest == FilterLinks(Tail(lines))
         IN  IF Strip(line) # "" /\ ~StartsWith(line, "#")
             THEN <<Strip(line)>> \o rest
             ELSE rest

\* list(set(links)): the set's iteration order is the hash order of its
\* elements, which the program does not control
ListOfSet(S) ==
    {q \in [1..Cardinality(S) -> S] : \A i, j \in 1..Cardinality(S) : q[i] = q[j] => i = j}

\* the lists read_links_from_file may return
read_links_from_file ==
    IF file_state = "ok"
    THEN ListOfSet(Range(FilterLinks(file_lines)))
    ELSE {<< >>}

\* ------------------------------------------------------ python values
\* dict.get(key, default)
Get(d, key, default) == IF key \in DOMAIN d THEN d[key] ELSE default

EmptyDict == [key \in {} |-> None]

Last(q) == q[Len(q)]

min(a, b) == IF a < b THEN a ELSE b

\* s[:n]
Slice(s, n) == SubSeq(s, 1, min(n, Len(s)))

\* an exception object: its class and str(e)
Exc(type, msg) == [type |-> type, msg |-> msg]

\* outcomes of evaluating a piece of code
Returned(v) == [raised |-> FALSE, v |-> v]
Raised(e) == [raised |-> TRUE, e |-> e]

\* ------------------------------------------------------ external resolver
BotText == "Sign in to confirm you're not a bot"

\* what ydl.extract_info may raise
ResolverErrors ==
    { Exc("DownloadError", "ERROR: [youtube] abc: " \o BotText),
      Exc("DownloadError", "ERROR: [youtube] abc: Video unavailable"),
      Exc("DownloadError", "ERROR: [youtube] abc: Private video"),
      Exc("DownloadError", "ERROR: This video is not available"),
      Exc("DownloadError", "ERROR: Private video. " \o BotText),
      Exc("OSError", "Network is unreachable") }

StreamM4a == "https://cdn.example/abc.m4a"
StreamWebm == "https://cdn.example/abc.webm"
Title == "Tamil Nursery Rhyme Official Video"

fmtAudioM4a == [vcodec |-> "none", acodec |-> "mp4a.40.2", url |-> StreamM4a]
fmtAudioOpus == [vcodec |-> "none", acodec |-> "opus", url |-> StreamWebm]
fmtVideo == [vcodec |-> "avc1.4d401e", acodec |-> "mp4a.40.2", url |-> StreamWebm]
fmtNoUrl == [vcodec |-> "none", acodec |-> "opus"]

FormatLists ==
    { << >>, <<fmtAudioM4a, fmtAudioOpus>>, <<fmtAudioOpus>>, <<fmtVideo>>,
      <<fmtAudioM4a, fmtNoUrl>>, <<fmtNoUrl>> }

\* the info dicts ydl.extract_info may return for the page `url`
Infos(url) ==
    { EmptyDict, [key \in {"title"} |-> Title], [key \in {"url"} |-> StreamM4a] }
    \cup { [title |-> Title, url |-> u] : u \in {StreamM4a, url, PageWatch, None} }
    \cup { [title |-> None, url |-> u] : u \in {StreamM4a, PageWatch} }
    \cup { [title |-> Title, formats |-> f] : f \in FormatLists }

\* outcomes of one call ydl.extract_info(url, download=False)
ResolverOutcomes(url) ==
    {Raised(e) : e \in ResolverErrors} \cup {Returned(i) : i \in Infos(url)}

\* `if info`: a dict is true when it is non-empty (an empty result, None or
\* {}, is the dict without keys)
Truthy(info) == DOMAIN info # {}

\* ------------------------------------------------------ extractor adapter
NoResult == [k |-> "none"]
Result(info, stream_url) ==
    [k |-> "dict", title |-> Get(info, "title", "Unknown Title"), stream_url |-> stream_url]
\* an exception leaving the adapter
Escaped(e) == [k |-> "raise", e |-> e]

\* f['url']
FormatUrl(f) ==
    IF "url" \in DOMAIN f THEN Returned(f.url) ELSE Raised(Exc("KeyError", "'url'"))

\* the stream url selection of extract_video_info
SelectStream(info, url) ==
    IF "url" \in DOMAIN info THEN Returned(info.url)
    ELSE LET formats == Get(info, "formats", << >>)
             IsAudio(f) == Get(f, "vcodec", None) = "none" /\ Get(f, "acodec", None) # "none"
             IsPreferred(f) == \E codec \in {"mp4a", "aac", "mp3"} : Contains(codec, Get(f, "acodec", ""))
             audio_formats == SelectSeq(formats, IsAudio)
             preferred_formats == SelectSeq(audio_formats, IsPreferred)
         IN  IF audio_formats # << >>
             THEN IF preferred_formats # << >>
                  THEN FormatUrl(Last(preferred_formats))
                  ELSE FormatUrl(Last(audio_formats))
             ELSE IF formats # << >> THEN FormatUrl(Last(formats)) ELSE Returned(url)

\* mutant: an empty result is raised as an error instead of returned
TryPrimaryEmptyRaises(url, r) ==
    IF r.raised THEN r
    ELSE IF ~Truthy(r.v) THEN Raised(Exc("ValueError", "No info extracted"))
    ELSE LET s == SelectStream(r.v, url)
         IN  IF s.raised THEN s ELSE Returned(Result(r.v, s.v))

\* the try block of extract_video_info, given the outcome `r` of the call
TryPrimary(url, r) ==
    IF r.raised THEN r
    ELSE IF ~Truthy(r.v) THEN Returned(NoResult)
    ELSE LET s == SelectStream(r.v, url)
         IN  IF s.raised THEN s ELSE Returned(Result(r.v, s.v))

\* mutant: `except yt_dlp.utils.DownloadError` in place of `except Exception`
AdapterCatchesDownloadErrorOnly(e) == e.type = "DownloadError"

\* `except Exception` of extract_video_info
AdapterCatches(e) == TRUE

\* `except Exception` of extract_with_fallback
FallbackCatches(e) == TRUE

\* mutant: the "Private video" branch is missing
IsTerminalWithoutPrivate(msg) ==
    \/ Contains("Video unavailable", msg)
    \/ Contains("This video is not available", msg)

IsTerminal(msg) ==
    \/ Contains("Video unavailable", msg)
    \/ Contains("Private video", msg)
    \/ Contains("This video is not available", msg)

\* mutant: the bot-detection branch comes after the terminal branches
ExceptBranchTerminalFirst(msg, att) ==
    IF IsTerminal(msg) THEN "fail"
    ELSE IF Contains(BotText, msg) THEN "fallback"
    ELSE IF att < max_retries - 1 THEN "retry"
    ELSE "exhausted"

\* mutant: `attempt < max_retries` in place of `attempt < max_retries - 1`
ExceptBranchRetriesAgain(msg, att) ==
    IF Contains(BotText, msg) THEN "fallback"
    ELSE IF IsTerminal(msg) THEN "fail"
    ELSE IF att < max_retries THEN "retry"
    ELSE "exhausted"

\* the except block of extract_video_info: what follows an error
ExceptBranch(msg, att) ==
    IF Contains(BotText, msg) THEN "fallback"
    ELSE IF IsTerminal(msg) THEN "fail"
    ELSE IF att < max_retries - 1 THEN "retry"
    ELSE "exhausted"

\* mutant: the delay is scaled by the 0-based attempt
SleepTimeZeroBased(att) == retry_delay * att

\* time.sleep argument between two attempts of extract_video_info
SleepTime(att) == retry_delay * (att + 1)

\* adapter events: the resolver call `op` whose outcome was `r`, and the
\* outcome `t` of the code that used it (the call's error, or an error raised
\* while the result was used)
Event(op, r, t) ==
    [op |-> op, raised |-> t.raised, msg |-> IF t.raised THEN t.e.msg ELSE "",
     empty |-> IF r.raised THEN FALSE ELSE ~Truthy(r.v),
     has_url |-> IF r.raised THEN FALSE ELSE "url" \in DOMAIN r.v,
     url |-> IF r.raised THEN "" ELSE Get(r.v, "url", ""),
     secs |-> 0]
SleepEvent(secs) ==
    [op |-> "sleep", raised |-> FALSE, msg |-> "", empty |-> FALSE,
     has_url |-> FALSE, url |-> "", secs |-> secs]

\* ------------------------------------------------------ heuristic derivers
UpperChars == "ABCDEFGHIJKLMNOPQRSTUVWXYZ"
LowerChars == "abcdefghijklmnopqrstuvwxyz"
DigitChars == "0123456789"

Chars(s) == {SubSeq(s, i, i) : i \in 1..Len(s)}

UpperSet == Chars(UpperChars)
LowerSet == Chars(LowerChars)
DigitSet == Chars(DigitChars)

\* the letter pairs of str.lower() and str.upper()
ToLower == [i \in 1..Len(UpperChars) |-> <<SubSeq(UpperChars, i, i), SubSeq(LowerChars, i, i)>>]

LowerChar(c) ==
    IF c \in UpperSet THEN ToLower[CHOOSE i \in DOMAIN ToLower : ToLower[i][1] = c][2] ELSE c
UpperChar(c) ==
    IF c \in LowerSet THEN ToLower[CHOOSE i \in DOMAIN ToLower : ToLower[i][2] = c][1] ELSE c

\* str.lower()
RECURSIVE Lower(_)
Lower(s) == IF s = "" THEN "" ELSE LowerChar(SubSeq(s, 1, 1)) \o Lower(SubSeq(s, 2, Len(s)))

\* str.upper()
RECURSIVE Upper(_)
Upper(s) == IF s = "" THEN "" ELSE UpperChar(SubSeq(s, 1, 1)) \o Upper(SubSeq(s, 2, Len(s)))

\* str.capitalize()
Capitalize(s) == IF s = "" THEN "" ELSE UpperChar(SubSeq(s, 1, 1)) \o Lower(SubSeq(s, 2, Len(s)))

\* position of the first character of s that is in cs, 0 when there is none
FirstOf(cs, s) ==
    LET hits == {i \in 1..Len(s) : SubSeq(s, i, i) \in cs}
    IN  IF hits = {} THEN 0 ELSE CHOOSE i \in hits : \A j \in hits : i <= j

\* position of the last character of s that is in cs, 0 when there is none
LastOf(cs, s) ==
    LET hits == {i \in 1..Len(s) : SubSeq(s, i, i) \in cs}
    IN  IF hits = {} THEN 0 ELSE CHOOSE i \in hits : \A j \in hits : i >= j

\* s.split(c, 1)[0]
Before(cs, s) == IF FirstOf(cs, s) = 0 THEN s ELSE SubSeq(s, 1, FirstOf(cs, s) - 1)

\* urlparse(url).path
UrlPath(url) ==
    LET colon == FirstOf({":"}, url)
        has_scheme == /\ colon > 1
                      /\ SubSeq(url, 1, 1) \in UpperSet \cup LowerSet
                      /\ Chars(SubSeq(url, 1, colon - 1)) \subseteq
                           UpperSet \cup LowerSet \cup DigitSet \cup {"+", "-", "."}
        rest == IF has_scheme THEN SubSeq(url, colon + 1, Len(url)) ELSE url
        after_netloc ==
            IF StartsWith(rest, "//")
            THEN LET tail == SubSeq(rest, 3, Len(rest))
                     cut == FirstOf({"/", "?", "#"}, tail)
                 IN  IF cut = 0 THEN "" ELSE SubSeq(tail, cut, Len(tail))
            ELSE rest
    IN  Before({"?"}, Before({"#"}, after_netloc))

\* is_hls_url
is_hls_url(url) == Contains(".m3u8", Lower(url))

\* get_file_extension
get_file_extension(url) ==
    LET path == UrlPath(url)
    IN  IF Contains(".", path)
        THEN Lower(Before({"?"}, SubSeq(path, LastOf({"."}, path) + 1, Len(path))))
        ELSE ""

\* codec_map of get_codec_info
codec_map ==
    [ext \in {"m4a", "mp4", "mp3", "aac", "webm", "ogg", "m3u8"} |->
        CASE ext = "m4a" -> "MP4A"
          [] ext = "mp4" -> "MP4A"
          [] ext = "mp3" -> "MP3"
          [] ext = "aac" -> "AAC"
          [] ext = "webm" -> "OPUS"
          [] ext = "ogg" -> "OGG"
          [] ext = "m3u8" -> "HLS"]

\* bitrate_map of get_codec_info
bitrate_map == [ext \in {"m4a", "mp4", "mp3", "aac", "webm", "ogg", "m3u8"} |-> 128]

\* get_codec_info
get_codec_info(url) ==
    LET ext == get_file_extension(url)
    IN  [codec |-> Get(codec_map, ext, "MP4A"), bitrate |-> Get(bitrate_map, ext, 128)]

\* language_indicators of guess_language_from_title, in dict order
language_indicators ==
    << [language |-> "tamil", indicators |-> {"tamil", "tamizh", "tam"}],
       [language |-> "hindi", indicators |-> {"hindi", "hind"}],
       [language |-> "english", indicators |-> {"english", "eng"}],
       [language |-> "telugu", indicators |-> {"telugu", "tel"}],
       [language |-> "malayalam", indicators |-> {"malayalam", "mal"}],
       [language |-> "kannada", indicators |-> {"kannada", "kan"}] >>

\* guess_language_from_title
guess_language_from_title(title) ==
    LET title_lower == Lower(title)
        hits == {i \in 1..Len(language_indicators) :
                   \E indicator \in language_indicators[i].indicators : Contains(indicator, title_lower)}
    IN  IF hits = {}
        THEN [language |-> "Tamil", code |-> "TAMIL"]
        ELSE LET language == language_indicators[CHOOSE i \in hits : \A j \in hits : i <= j].language
             IN  [language |-> Capitalize(language), code |-> Slice(Upper(language), 5)]

\* \w of the regular expressions
WordChars == UpperSet \cup LowerSet \cup DigitSet \cup {"_"}

\* [-\s] of the regular expressions
SeparatorChars == Whitespace \cup {"-"}

\* re.sub(r'[^\w\s-]', '', title)
RECURSIVE RemoveUnsafe(_)
RemoveUnsafe(s) ==
    IF s = "" THEN ""
    ELSE LET c == SubSeq(s, 1, 1)
             rest == RemoveUnsafe(SubSeq(s, 2, Len(s)))
         IN  IF c \in WordChars \/ c \in SeparatorChars THEN c \o rest ELSE rest

\* re.sub(r'[-\s]+', '_', safe_title)
RECURSIVE CollapseSeparators(_)
CollapseSeparators(s) ==
    IF s = "" THEN ""
    ELSE LET c == SubSeq(s, 1, 1)
             tail == SubSeq(s, 2, Len(s))
         IN  IF c \in SeparatorChars
             THEN IF tail # "" /\ SubSeq(tail, 1, 1) \in SeparatorChars
                  THEN CollapseSeparators(tail)
                  ELSE "_" \o CollapseSeparators(tail)
             ELSE c \o CollapseSeparators(tail)

\* mutant: the second re.sub is missing
create_filename_keeps_separators(title, url) ==
    LET safe_title == RemoveUnsafe(title)
        ext == get_file_extension(url)
    IN  IF ext # "" THEN safe_title \o "." \o ext ELSE safe_title \o ".m4a"

\* create_filename
create_filename(title, url) ==
    LET safe_title == CollapseSeparators(RemoveUnsafe(title))
        ext == get_file_extension(url)
    IN  IF ext # "" THEN safe_title \o "." \o ext ELSE safe_title \o ".m4a"

\* ------------------------------------------------------------------ clock
\* the wall clock counts half seconds from the start of the run
Pad2(n) == SubSeq(DigitChars, (n \div 10) + 1, (n \div 10) + 1) \o SubSeq(DigitChars, (n % 10) + 1, (n % 10) + 1)

\* current_time.strftime("%Y-%m-%dT%H:%M:%S")
Strftime(t) == "2026-01-01T00:00:" \o Pad2((t \div 2) % 60)

\* current_time.isoformat(): microseconds are printed unless they are 0
IsoFormat(t) == Strftime(t) \o (IF t % 2 = 0 THEN "" ELSE ".500000") \o "+00:00"

\* s.replace('+00:00', 'Z') for the single occurrence at the end
ReplaceOffset(s) ==
    IF Len(s) >= 6 /\ SubSeq(s, Len(s) - 5, Len(s)) = "+00:00"
    THEN SubSeq(s, 1, Len(s) - 6) \o "Z"
    ELSE s

\* get_current_timestamp at clock value t
get_current_timestamp(t) == [formatted_time |-> Strftime(t), iso_time |-> ReplaceOffset(IsoFormat(t))]

\* --------------------------------------------------------- per-item steps
\* the fields process_video_link derives from the title and the stream url
DerivedFields(title, stream_url) ==
    LET codec_info == get_codec_info(stream_url)
        lang == guess_language_from_title(title)
    IN  [is_hls |-> IF is_hls_url(stream_url) THEN 1 ELSE 0,
         codec |-> codec_info.codec,
         bitrate |-> codec_info.bitrate,
         language |-> lang.language,
         language_code |-> lang.code,
         filename |-> create_filename(title, stream_url)]

\* DerivedFields, evaluated once for the titles and stream urls of the
\* resolver outcomes above
DerivedTable ==
    [t \in {Title, "Unknown Title"}, u \in {StreamM4a, StreamWebm, PageShort, "# note"} |->
        DerivedFields(t, u)]

\* the fields of DerivedFields for a title and a stream url
Derived(title, stream_url) ==
    IF <<title, stream_url>> \in DOMAIN DerivedTable
    THEN DerivedTable[title, stream_url]
    ELSE DerivedFields(title, stream_url)

\* the dict literal of station_data: `d` holds the derived fields, `ts` the
\* timestamp pair of the first four slots and `click` that of clicktimestamp
StationRecord(url, title, stream_url, d, ts, click) ==
    [k |-> "dict",
     name |-> Slice(title, 80),
     url |-> url,
     url_resolved |-> stream_url,
     countrycode |-> d.language_code,
     language |-> d.language,
     lastchangetime |-> ts.formatted_time,
     lastchangetime_iso8601 |-> ts.iso_time,
     codec |-> d.codec,
     bitrate |-> d.bitrate,
     file_name_from_url |-> Slice(d.filename, 80),
     hls |-> d.is_hls,
     lastchecktime |-> ts.formatted_time,
     lastchecktime_iso8601 |-> ts.iso_time,
     lastcheckoktime |-> ts.formatted_time,
     lastcheckoktime_iso8601 |-> ts.iso_time,
     lastlocalchecktime |-> ts.formatted_time,
     lastlocalchecktime_iso8601 |-> ts.iso_time,
     clicktimestamp |-> click.formatted_time,
     clicktimestamp_iso8601 |-> click.iso_time]

\* mutant: the click timestamp is read from the clock when the record is built
station_data_fresh_click(url, vi, ts) ==
    StationRecord(url, vi.title, vi.stream_url, Derived(vi.title, vi.stream_url),
                  ts, get_current_timestamp(now))

\* the station_data dict of process_video_link; `ts` is the timestamp pair
\* taken at the start of the method, used for every slot
station_data(url, vi, ts) ==
    StationRecord(url, vi.title, vi.stream_url, Derived(vi.title, vi.stream_url), ts, ts)

\* mutant: the rejection by the stream url test is not counted
process_video_link_uncounted_rejection(url, vi, ts) ==
    IF vi.k = "raise"
    THEN [out |-> Raised(vi.e), failed |-> 0, processed |-> 0]
    ELSE IF vi.k = "none"
    THEN [out |-> Returned(NoResult), failed |-> 1, processed |-> 0]
    ELSE IF vi.stream_url = None
    THEN [out |-> Raised(Exc("TypeError", "argument of type 'NoneType' is not iterable")),
          failed |-> 0, processed |-> 0]
    ELSE IF Contains("youtube.com/watch", vi.stream_url)
    THEN [out |-> Returned(NoResult), failed |-> 0, processed |-> 0]
    ELSE IF vi.title = None
    THEN [out |-> Raised(Exc("AttributeError", "'NoneType' object has no attribute 'lower'")),
          failed |-> 0, processed |-> 0]
    ELSE [out |-> Returned(station_data(url, vi, ts)), failed |-> 0, processed |-> 1]

\* the part of process_video_link after extract_video_info has come back
\* with `vi`: the record, or None, or the exception that leaves the method,
\* and what it adds to the two counters
process_video_link(url, vi, ts) ==
    IF vi.k = "raise"
    THEN [out |-> Raised(vi.e), failed |-> 0, processed |-> 0]
    ELSE IF vi.k = "none"
    THEN [out |-> Returned(NoResult), failed |-> 1, processed |-> 0]
    ELSE IF vi.stream_url = None
    THEN [out |-> Raised(Exc("TypeError", "argument of type 'NoneType' is not iterable")),
          failed |-> 0, processed |-> 0]
    ELSE IF Contains("youtube.com/watch", vi.stream_url)
    THEN [out |-> Returned(NoResult), failed |-> 1, processed |-> 0]
    ELSE IF vi.title = None
    THEN [out |-> Raised(Exc("AttributeError", "'NoneType' object has no attribute 'lower'")),
          failed |-> 0, processed |-> 0]
    ELSE [out |-> Returned(station_data(url, vi, ts)), failed |-> 0, processed |-> 1]

\* mutant: `except KeyError` in place of `except Exception`
LoopCatchesKeyErrorOnly(e) == e.type = "KeyError"

\* `except Exception` of the loop of process_all_links
LoopCatches(e) == TRUE

\* mutant: `index < len(links)` in place of `index < len(links) - 1`
InterItemDelayAfterEvery(i, n) == i < n

\* `if index < len(links) - 1` of the loop of process_all_links: whether a
\* delay follows the item with 0-based index i of n
InterItemDelay(i, n) == i < n - 1

\* mutant: `or` in place of `and`
ExitCodeOr(ok, processed) == IF ok \/ processed > 0 THEN 0 ELSE 1

\* `if success and processor.processed_count > 0` of main
ExitCode(ok, processed) == IF ok /\ processed > 0 THEN 0 ELSE 1

\* ------------------------------------------------------------------ Init
Init ==
    /\ pc = "main"
    /\ file_state \in {"absent", "unreadable", "ok"}
    /\ file_lines \in Files
    /\ file_state # "ok" => file_lines = << >>
    /\ links = << >>
    /\ index = 0
    /\ output_data = << >>
    /\ processed_count = 0
    /\ failed_count = 0
    /\ attempt = 0
    /\ flat_info = EmptyDict
    /\ video_info = NoResult
    /\ trace = << >>
    /\ handed = << >>
    /\ item_outcome = "none"
    /\ sleeps = 0
    /\ save_calls = 0
    /\ write_result = "none"
    /\ success = FALSE
    /\ exit_code = -1
    /\ now = 0
    /\ stamp = get_current_timestamp(0)

\* --------------------------------------------------------------- actions
\* main up to the call of process_all_links, and process_all_links up to
\* its loop
main ==
    /\ pc = "main"
    /\ IF file_state = "absent"
       THEN /\ pc' = "exited"
            /\ exit_code' = 1
            /\ UNCHANGED links
       ELSE \E l \in read_links_from_file :
                /\ links' = l
                /\ pc' = IF l = << >> THEN "exit" ELSE "item"
                /\ UNCHANGED exit_code
    /\ UNCHANGED <<now, stamp, file_state, file_lines, index, output_data, processed_count,
                   failed_count, attempt, flat_info, video_info, trace, handed,
                   item_outcome, sleeps, save_calls, write_result, success>>

\* the loop of process_all_links calls process_video_link(link, index),
\* which runs up to its call of extract_video_info
call_process_video_link ==
    /\ pc = "item"
    /\ handed' = Append(handed, links[index + 1])
    /\ stamp' = get_current_timestamp(now)
    /\ attempt' = 0
    /\ trace' = << >>
    /\ pc' = "primary"
    /\ UNCHANGED <<now, file_state, file_lines, links, index, output_data,
                   processed_count, failed_count, flat_info, video_info,
                   item_outcome, sleeps, save_calls, write_result, success,
                   exit_code>>

\* one pass of the retry loop of extract_video_info: the resolver call and
\* what the try and except blocks make of it
extract_video_info ==
    /\ pc = "primary"
    /\ \E r \in ResolverOutcomes(links[index + 1]) :
          LET url == links[index + 1]
              t == TryPrimary(url, r)
              ev == Event("primary", r, t)
          IN  IF ~t.raised
              THEN /\ video_info' = t.v
                   /\ trace' = Append(trace, ev)
                   /\ pc' = "returned"
                   /\ UNCHANGED attempt
              ELSE IF ~AdapterCatches(t.e)
              THEN /\ video_info' = Escaped(t.e)
                   /\ trace' = Append(trace, ev)
                   /\ pc' = "returned"
                   /\ UNCHANGED attempt
              ELSE LET branch == ExceptBranch(t.e.msg, attempt)
                   IN  /\ video_info' = NoResult
                       /\ trace' = IF branch = "retry"
                                   THEN trace \o <<ev, SleepEvent(SleepTime(attempt))>>
                                   ELSE Append(trace, ev)
                       /\ pc' = CASE branch = "fallback" -> "fallback"
                                  [] branch = "retry" -> "primary"
                                  [] OTHER -> "returned"
                       /\ attempt' = IF branch = "retry" THEN attempt + 1 ELSE attempt
    /\ UNCHANGED <<now, stamp, file_state, file_lines, links, index, output_data,
                   processed_count, failed_count, flat_info, handed,
                   item_outcome, sleeps, save_calls, write_result, success,
                   exit_code>>

\* the result dict of extract_with_fallback
FallbackResult(info, url) ==
    IF Truthy(info)
    THEN [k |-> "dict", title |-> Get(info, "title", "Unknown Title"),
          stream_url |-> Get(info, "url", url)]
    ELSE NoResult

\* what extract_with_fallback returns when a call raised `e`
FallbackRaised(e) == IF FallbackCatches(e) THEN NoResult ELSE Escaped(e)

\* extract_with_fallback: the flattened call
extract_with_fallback ==
    /\ pc = "fallback"
    /\ \E r \in ResolverOutcomes(links[index + 1]) :
          LET url == links[index + 1]
          IN  /\ trace' = Append(trace, Event("flat", r, r))
              /\ IF r.raised
                 THEN /\ video_info' = FallbackRaised(r.e)
                      /\ pc' = "returned"
                      /\ UNCHANGED flat_info
                 ELSE IF Truthy(r.v) /\ "url" \notin DOMAIN r.v
                 THEN /\ flat_info' = r.v
                      /\ pc' = "fallback_full"
                      /\ UNCHANGED video_info
                 ELSE /\ video_info' = FallbackResult(r.v, url)
                      /\ pc' = "returned"
                      /\ UNCHANGED flat_info
    /\ UNCHANGED <<now, stamp, file_state, file_lines, links, index, output_data,
                   processed_count, failed_count, attempt, handed,
                   item_outcome, sleeps, save_calls, write_result, success,
                   exit_code>>

\* extract_with_fallback: the full call with the alternate client
extract_with_fallback_full ==
    /\ pc = "fallback_full"
    /\ \E r \in ResolverOutcomes(links[index + 1]) :
          LET url == links[index + 1]
              info == IF ~r.raised /\ Truthy(r.v) /\ "url" \in DOMAIN r.v
                      THEN r.v ELSE flat_info
          IN  /\ trace' = Append(trace, Event("full", r, r))
              /\ video_info' = IF r.raised THEN FallbackRaised(r.e)
                               ELSE FallbackResult(info, url)
    /\ pc' = "returned"
    /\ flat_info' = EmptyDict
    /\ UNCHANGED <<now, stamp, file_state, file_lines, links, index, output_data,
                   processed_count, failed_count, attempt, handed,
                   item_outcome, sleeps, save_calls, write_result, success,
                   exit_code>>

\* extract_video_info has come back: the rest of process_video_link, then
\* the rest of the loop body of process_all_links
finish_item ==
    /\ pc = "returned"
    \* p: what process_video_link gives back for this item
    /\ \E p \in {process_video_link(links[index + 1], video_info, stamp)} :
       LET caught == p.out.raised /\ LoopCatches(p.out.e)
           escapes == p.out.raised /\ ~LoopCatches(p.out.e)
           appended == ~p.out.raised /\ p.out.v.k = "dict"
       IN  /\ processed_count' = processed_count + p.processed
           /\ failed_count' = failed_count + p.failed + (IF caught THEN 1 ELSE 0)
           /\ output_data' = IF appended THEN Append(output_data, p.out.v) ELSE output_data
           /\ item_outcome' = IF appended THEN "record"
                              ELSE IF p.out.raised THEN "raised" ELSE "failed"
           /\ IF escapes
              THEN /\ pc' = "exited"
                   /\ exit_code' = 1
                   /\ UNCHANGED <<index, sleeps>>
              ELSE /\ index' = index + 1
                   /\ sleeps' = IF InterItemDelay(index, Len(links)) THEN sleeps + 1 ELSE sleeps
                   /\ pc' = IF index + 1 < Len(links) THEN "item" ELSE "save"
                   /\ UNCHANGED exit_code
    /\ video_info' = NoResult
    /\ trace' = << >>
    /\ attempt' = 0
    /\ UNCHANGED <<now, stamp, file_state, file_lines, links, flat_info, handed,
                   save_calls, write_result, success>>

\* outcomes of the write in save_to_json: written and verified, open or
\* json.dump raised, or the file is missing or empty afterwards
WriteOutcomes == {"ok", "raised", "unverified"}

\* save_to_json
save_to_json(w) == w = "ok"

\* mutant: the accumulator is written without the `if self.output_data` test
process_all_links_unguarded ==
    /\ pc = "save"
    /\ \E w \in WriteOutcomes :
          /\ save_calls' = save_calls + 1
          /\ write_result' = w
          /\ success' = save_to_json(w)
    /\ pc' = "exit"
    /\ UNCHANGED <<now, stamp, file_state, file_lines, links, index, output_data,
                   processed_count, failed_count, attempt, flat_info,
                   video_info, trace, handed, item_outcome, sleeps, exit_code>>

\* the end of process_all_links
process_all_links ==
    /\ pc = "save"
    /\ IF output_data # << >>
       THEN \E w \in WriteOutcomes :
               /\ save_calls' = save_calls + 1
               /\ write_result' = w
               /\ success' = save_to_json(w)
       ELSE /\ success' = FALSE
            /\ UNCHANGED <<save_calls, write_result>>
    /\ pc' = "exit"
    /\ UNCHANGED <<now, stamp, file_state, file_lines, links, index, output_data,
                   processed_count, failed_count, attempt, flat_info,
                   video_info, trace, handed, item_outcome, sleeps, exit_code>>

\* the end of main
main_exit ==
    /\ pc = "exit"
    /\ exit_code' = ExitCode(success, processed_count)
    /\ pc' = "exited"
    /\ UNCHANGED <<now, stamp, file_state, file_lines, links, index, output_data,
                   processed_count, failed_count, attempt, flat_info,
                   video_info, trace, handed, item_outcome, sleeps,
                   save_calls, write_result, success>>

Next ==
    \/ main
    \/ call_process_video_link
    \/ extract_video_info
    \/ extract_with_fallback
    \/ extract_with_fallback_full
    \/ finish_item
    \/ process_all_links
    \/ main_exit

\* a run whose wall clock stands still
Spec == Init /\ [][Next]_vars

\* time passes
tick ==
    /\ pc # "exited"
    /\ now < MaxClock
    /\ now' = now + 1
    /\ UNCHANGED <<pc, file_state, file_lines, links, index, output_data,
                   processed_count, failed_count, attempt, flat_info, video_info,
                   trace, handed, item_outcome, sleeps, save_calls, write_result,
                   success, exit_code, stamp>>

InitTime == Init /\ Len(file_lines) <= MaxTimedLines

NextTime ==
    \/ main
    \/ call_process_video_link
    \/ extract_video_info
    \/ extract_with_fallback
    \/ extract_with_fallback_full
    \/ finish_item
    \/ process_all_links
    \/ main_exit
    \/ tick

\* a run of at most MaxTimedLines lines whose wall clock advances
SpecTime == InitTime /\ [][NextTime]_vars

\* ================================================================ claims
\* the unique usable lines of links.txt
UniqueLinks ==
    { Strip(file_lines[i]) :
        i \in { j \in 1..Len(file_lines) :
                  Strip(file_lines[j]) # "" /\ ~StartsWith(file_lines[j], "#") } }

LoopOver == pc \in {"save", "exit", "exited"}

PrimaryEvents == { i \in 1..Len(trace) : trace[i].op = "primary" }

HasBotText(msg) == Contains("Sign in to confirm you're not a bot", msg)

\* C1: in a run whose input yields at least one link, no link is handed to
\* process_video_link twice, and once the loop is over every unique link has
\* been handed to it exactly once, also after items that failed or raised.
C1_EveryLinkHandedOnce ==
    /\ \A i, j \in 1..Len(handed) : handed[i] = handed[j] => i = j
    /\ Range(handed) \subseteq UniqueLinks
    /\ (file_state = "ok" /\ UniqueLinks # {} /\ LoopOver)
         => /\ Range(handed) = UniqueLinks
            /\ Len(handed) = Cardinality(UniqueLinks)
            /\ index = Len(handed)

\* C1 witness: the first item raised out of process_video_link and the
\* second one has been handed over all the same
C1_Witness ==
    /\ pc = "primary"
    /\ index = 1
    /\ item_outcome = "raised"
    /\ Len(handed) = 2

C2_TerminalEvent(ev) ==
    /\ ev.op = "primary"
    /\ ev.raised
    /\ \/ Contains("Video unavailable", ev.msg)
       \/ Contains("Private video", ev.msg)
       \/ Contains("This video is not available", ev.msg)
    /\ ~HasBotText(ev.msg)

\* C2: a primary call that raises an unavailable / private / not-available
\* error (without the bot-detection text) is the adapter's last event for the
\* item: the adapter has returned None, with a single resolver call when it
\* was the first attempt; finishing the item then appends no record and adds
\* exactly 1 to failed_count.
C2_TerminalErrorFailsAtOnce ==
    /\ [](\A i \in 1..Len(trace) :
            C2_TerminalEvent(trace[i])
              => /\ i = Len(trace)
                 /\ pc = "returned"
                 /\ video_info = NoResult
                 /\ attempt = 0 => Len(trace) = 1)
    /\ [][(pc = "returned" /\ trace # << >> /\ C2_TerminalEvent(Last(trace)))
            => /\ failed_count' = failed_count + 1
               /\ processed_count' = processed_count
               /\ output_data' = output_data]_vars

\* C2 witness: the first call raised "Private video" and the adapter is back
C2_Witness ==
    /\ pc = "returned"
    /\ Len(trace) = 1
    /\ C2_TerminalEvent(trace[1])
    /\ Contains("Private video", trace[1].msg)

C3_UnknownError(ev) ==
    /\ ev.op = "primary"
    /\ ev.raised
    /\ ~HasBotText(ev.msg)
    /\ ~Contains("Video unavailable", ev.msg)
    /\ ~Contains("Private video", ev.msg)
    /\ ~Contains("This video is not available", ev.msg)

\* C3: the primary resolver is called at most 2 times per item; the only
\* delay of the adapter is the one after a first attempt that raised an
\* unknown error, it lasts 5 seconds and is followed by the second call; when
\* both calls raise unknown errors the adapter returns None after exactly 2
\* calls and that one delay.
C3_UnknownErrorRetriedOnce ==
    /\ Cardinality(PrimaryEvents) <= 2
    /\ \A i \in 1..Len(trace) :
          trace[i].op = "sleep"
            => /\ i = 2
               /\ trace[i].secs = 5
               /\ C3_UnknownError(trace[1])
    /\ (trace # << >> /\ C3_UnknownError(trace[1]))
          => /\ Len(trace) >= 2
             /\ trace[2].op = "sleep"
             /\ pc = "returned" => (Len(trace) >= 3 /\ trace[3].op = "primary")
    /\ (pc = "returned" /\ \A i \in PrimaryEvents : C3_UnknownError(trace[i]))
          => /\ Len(trace) = 3
             /\ PrimaryEvents = {1, 3}
             /\ video_info = NoResult

\* C3 witness: two unknown errors in a row, the adapter is back
C3_Witness ==
    /\ pc = "returned"
    /\ Len(trace) = 3
    /\ C3_UnknownError(trace[1])
    /\ C3_UnknownError(trace[3])

\* C4: every emitted record has url_resolved different from url: an item
\* whose stream_url is the input page url is rejected.
C4_NoRecordPointsAtItsPage ==
    \A i \in 1..Len(output_data) : output_data[i].url_resolved # output_data[i].url

C5_BotEvent(ev) == ev.op = "primary" /\ ev.raised /\ HasBotText(ev.msg)

C5_NeedsFull(ev) == ev.op = "flat" /\ ~ev.raised /\ ~ev.empty /\ ~ev.has_url

\* C5: after a primary call that raised the bot-detection text the adapter
\* has not returned before the flattened call; the alternate-client call is
\* made exactly when the flattened call gave a non-empty result without a
\* url; no primary call follows; and the adapter returns what the fallback
\* calls yield: None after an error or an empty flattened result, else the
\* flattened url, the alternate client's url, or the page url.
C5_BotDetectionRunsFallback ==
    \A i \in 1..Len(trace) :
        C5_BotEvent(trace[i])
          => /\ \A j \in PrimaryEvents : j <= i
             /\ i = Len(trace) => pc = "fallback"
             /\ i < Len(trace)
                  => LET flat == trace[i + 1]
                     IN  /\ flat.op = "flat"
                         /\ C5_NeedsFull(flat)
                              => \/ Len(trace) = i + 1 /\ pc = "fallback_full"
                                 \/ /\ Len(trace) = i + 2
                                    /\ trace[i + 2].op = "full"
                                    /\ pc = "returned"
                         /\ ~C5_NeedsFull(flat)
                              => Len(trace) = i + 1 /\ pc = "returned"
                         /\ pc = "returned"
                              => LET last == Last(trace)
                                 IN  IF last.raised \/ flat.empty
                                     THEN video_info = NoResult
                                     ELSE /\ video_info.k = "dict"
                                          /\ video_info.stream_url =
                                               IF last.has_url THEN last.url
                                               ELSE links[index + 1]

\* C5 witness: bot detection, then the flattened call without a url, then
\* the alternate-client call, and the adapter is back
C5_Witness ==
    /\ pc = "returned"
    /\ Len(trace) = 3
    /\ C5_BotEvent(trace[1])
    /\ trace[3].op = "full"
    /\ video_info.k = "dict"

\* C6: the process exits with status 0 exactly when at least one record was
\* produced and the output write succeeded, verification included.
C6_ExitZeroIffRecordWritten ==
    pc = "exited"
      => (exit_code = 0 <=> (Len(output_data) >= 1 /\ write_result = "ok"))

\* C6 witness: a run that wrote its records and exits with status 0
C6_Witness ==
    /\ pc = "exited"
    /\ exit_code = 0
    /\ failed_count >= 1

\* C7: save_to_json is called at most once, only after every item has been
\* attempted, and exactly when the accumulator is non-empty then; when all
\* items failed nothing is written and process_all_links returns False.
C7_SingleWriteAtEnd ==
    /\ save_calls <= 1
    /\ save_calls = 1
         => /\ pc \in {"exit", "exited"}
            /\ links # << >>
            /\ index = Len(links)
            /\ Len(handed) = Len(links)
    /\ pc \in {"exit", "exited"}
         => /\ save_calls = 1 <=> output_data # << >>
            /\ write_result # "none" <=> output_data # << >>
            /\ output_data = << >> => ~success

\* C7 witness: all items of a run failed and the run is over without a write
C7_Witness ==
    /\ pc = "exit"
    /\ links # << >>
    /\ failed_count = Len(links)
    /\ save_calls = 0

\* C8: extract_video_info never raises: what process_video_link gets back
\* is an extraction result or None, whatever the resolver did.
C8_AdapterNeverRaises ==
    /\ video_info.k \in {"none", "dict"}
    /\ pc = "returned"
         => \/ video_info = NoResult
            \/ /\ video_info.k = "dict"
               /\ DOMAIN video_info = {"k", "title", "stream_url"}

\* C8 witness: the adapter is back with None after the resolver's formats
\* list had an entry without a url on both attempts
C8_Witness ==
    /\ pc = "returned"
    /\ Len(trace) = 3
    /\ trace[1].msg = "'url'"
    /\ trace[3].msg = "'url'"
    /\ video_info = NoResult

\* first occurrences of the elements of q, in order
RECURSIVE Dedup(_)
Dedup(q) ==
    IF q = << >> THEN << >>
    ELSE LET init == Dedup(SubSeq(q, 1, Len(q) - 1))
         IN  IF Last(q) \in Range(init) THEN init ELSE Append(init, Last(q))

\* C9: the links are processed in the order of their first lines in the
\* input file, duplicates removed.
C9_LinksKeepFileOrder ==
    pc \notin {"main"} /\ file_state = "ok"
      => links = Dedup(FilterLinks(file_lines))

\* C10: no link returned by read_links_from_file is empty, carries leading
\* or trailing whitespace, or begins with '#'.
C10_LinksAreTrimmedNonComment ==
    \A i \in 1..Len(links) :
        /\ links[i] # ""
        /\ Strip(links[i]) = links[i]
        /\ ~StartsWith(links[i], "#")

\* C11: when links.txt is absent, unreadable or without a usable line, the
\* run attempts no record: no url is handed over, no resolver call is made,
\* nothing is appended or written, both counters stay 0 and the process
\* exits with a non-zero status.
C11_NoInputNoWork ==
    (file_state # "ok" \/ UniqueLinks = {})
      => /\ pc \in {"main", "exit", "exited"}
         /\ handed = << >>
         /\ trace = << >>
         /\ output_data = << >>
         /\ processed_count = 0
         /\ failed_count = 0
         /\ save_calls = 0
         /\ write_result = "none"
         /\ ~success
         /\ pc = "exited" => exit_code > 0

\* C11 witness: the run with an absent links.txt has exited
C11_Witness ==
    /\ file_state = "absent"
    /\ pc = "exited"
    /\ exit_code = 1

C12_IsScenarioA(rec) ==
    /\ rec.url = "https://youtu.be/abc"
    /\ rec.name = "Tamil Nursery Rhyme Official Video"
    /\ rec.url_resolved = "https://cdn.example/abc.m4a"

C12_Extraction ==
    [k |-> "dict", title |-> "Tamil Nursery Rhyme Official Video",
     stream_url |-> "https://cdn.example/abc.m4a"]

\* C12 as stated: in Scenario A the record has codec "MP4A", bitrate 128,
\* hls 0, language "Tamil" and file_name_from_url "Tamil_Nursery_Rhyme.m4a".
C12_ScenarioA_AsStated ==
    \A i \in 1..Len(output_data) :
        C12_IsScenarioA(output_data[i])
          => /\ output_data[i].codec = "MP4A"
             /\ output_data[i].bitrate = 128
             /\ output_data[i].hls = 0
             /\ output_data[i].language = "Tamil"
             /\ output_data[i].file_name_from_url = "Tamil_Nursery_Rhyme.m4a"

\* C12 amended: in Scenario A (input ["https://youtu.be/abc"], extraction
\* result with title "Tamil Nursery Rhyme Official Video" and stream_url
\* "https://cdn.example/abc.m4a") the run emits exactly one record, with codec
\* "MP4A", bitrate 128, hls 0, language "Tamil" and file_name_from_url
\* "Tamil_Nursery_Rhyme_Official_Video.m4a": the filename keeps every word
\* of the title.
C12_ScenarioA ==
    /\ [](\A i \in 1..Len(output_data) :
            C12_IsScenarioA(output_data[i])
              => /\ output_data[i].codec = "MP4A"
                 /\ output_data[i].bitrate = 128
                 /\ output_data[i].hls = 0
                 /\ output_data[i].language = "Tamil"
                 /\ output_data[i].file_name_from_url = "Tamil_Nursery_Rhyme_Official_Video.m4a")
    /\ [][(pc = "returned" /\ links = <<"https://youtu.be/abc">> /\ video_info = C12_Extraction)
            => /\ Len(output_data') = 1
               /\ C12_IsScenarioA(output_data'[1])
               /\ processed_count' = 1
               /\ failed_count' = 0
               /\ pc' = "save"]_vars

\* C12 witness: the run of Scenario A has written its one record and exited
C12_Witness ==
    /\ links = <<"https://youtu.be/abc">>
    /\ Len(output_data) = 1
    /\ C12_IsScenarioA(output_data[1])
    /\ pc = "exited"
    /\ exit_code = 0

InItem == pc \in {"primary", "fallback", "fallback_full", "returned"}

\* C13: while item i+1 is handled exactly i inter-item delays have been
\* taken; finishing an item, whether it succeeded, failed or raised, is
\* followed by a delay exactly when it is not the last one; so a run over n
\* links takes n-1 delays.
C13_DelaysBetweenItems ==
    /\ []((pc = "item" \/ InItem) => (sleeps = index /\ Len(handed) \in {index, index + 1}))
    /\ []((LoopOver /\ links # << >>) => sleeps = Len(links) - 1)
    /\ [][pc = "returned"
            => sleeps' = sleeps + (IF Len(handed) < Len(links) THEN 1 ELSE 0)]_vars
    /\ [][pc # "returned" => sleeps' = sleeps]_vars

\* C13 witness: a run over two links is past its loop, the last item raised,
\* and one delay was taken
C13_Witness ==
    /\ pc = "save"
    /\ Len(links) = 2
    /\ sleeps = 1
    /\ item_outcome = "raised"

C14_EndsWith(s, suffix) ==
    /\ Len(s) >= Len(suffix)
    /\ SubSeq(s, Len(s) - Len(suffix) + 1, Len(s)) = suffix

\* the ISO-8601 timestamp fields of a record
C14_IsoKeys(rec) == {key \in DOMAIN rec : C14_EndsWith(key, "_iso8601")}

\* the local-format field that goes with an ISO-8601 field
C14_LocalKey(key) == SubSeq(key, 1, Len(key) - Len("_iso8601"))

C14_SlotsEqual(rec) ==
    /\ \A key \in C14_IsoKeys(rec) : C14_LocalKey(key) \in DOMAIN rec
    /\ \A k1, k2 \in C14_IsoKeys(rec) :
          /\ rec[k1] = rec[k2]
          /\ rec[C14_LocalKey(k1)] = rec[C14_LocalKey(k2)]

C15_CounterAccounting ==
    /\ [](Len(output_data) = processed_count /\ processed_count + failed_count = index)
    /\ []((LoopOver /\ file_state = "ok" /\ UniqueLinks # {})
            => processed_count + failed_count = Cardinality(UniqueLinks))
    /\ [][pc = "returned"
            => \/ processed_count' = processed_count + 1 /\ failed_count' = failed_count
               \/ processed_count' = processed_count /\ failed_count' = failed_count + 1]_vars
    /\ [][pc # "returned"
            => processed_count' = processed_count /\ failed_count' = failed_count]_vars

\* C15 witness: of two items one gave a record and the last one raised
C15_Witness ==
    /\ pc = "save"
    /\ Len(links) = 2
    /\ processed_count = 1
    /\ failed_count = 1
    /\ item_outcome = "raised"

FallbackEvents == { i \in 1..Len(trace) : trace[i].op \in {"flat", "full"} }

\* the number of resolver calls the adapter may still make
C16_CallsLeft ==
    CASE pc = "primary" -> 4 - attempt
      [] pc = "fallback" -> 2
      [] pc = "fallback_full" -> 1
      [] OTHER -> 0

\* C16: for one item the adapter makes at most 2 primary and at most 2
\* fallback resolver calls, and every step of the adapter lowers the number
\* of calls it may still make, so that it returns after at most 4 calls.
C16_AdapterBounded ==
    /\ [](/\ Cardinality(PrimaryEvents) <= 2
          /\ Cardinality(FallbackEvents) <= 2
          /\ Cardinality(PrimaryEvents) + Cardinality(FallbackEvents) + C16_CallsLeft <= 4)
    /\ [][(pc \in {"primary", "fallback", "fallback_full"})
            => /\ C16_CallsLeft' < C16_CallsLeft
               /\ (pc' \in {"primary", "fallback", "fallback_full", "returned"})]_vars

\* C16 witness: the adapter is back after 2 primary and 2 fallback calls
C16_Witness ==
    /\ pc = "returned"
    /\ Cardinality(PrimaryEvents) = 2
    /\ Cardinality(FallbackEvents) = 2

C17_EmptyResult(ev) == ev.op = "primary" /\ ev.empty

\* C17: a primary call that returns an empty result without raising is the
\* adapter's last event for the item: the adapter has returned None without
\* delay or fallback, after a single resolver call when it was the first
\* attempt; finishing the item then adds exactly 1 to failed_count and
\* appends no record.
C17_EmptyResultFailsAtOnce ==
    /\ [](\A i \in 1..Len(trace) :
            C17_EmptyResult(trace[i])
              => /\ ~trace[i].raised
                 /\ i = Len(trace)
                 /\ pc = "returned"
                 /\ video_info = NoResult
                 /\ attempt = 0 => Len(trace) = 1)
    /\ [][(pc = "returned" /\ trace # << >> /\ C17_EmptyResult(Last(trace)))
            => /\ failed_count' = failed_count + 1
               /\ processed_count' = processed_count
               /\ output_data' = output_data]_vars

\* C17 witness: the first primary call returned an empty result and the
\* adapter is back
C17_Witness ==
    /\ pc = "returned"
    /\ Len(trace) = 1
    /\ C17_EmptyResult(trace[1])
    /\ video_info = NoResult
====
